---- MODULE Spec2Model ----
(***************************************************************************)
(* FridgePal: the client side of the detection-to-inventory pipeline.      *)
(*                                                                         *)
(*   src/src/services/detectionService.js   detectFoodItems,               *)
(*       checkBackendHealth, addToInventory, processDetectionResults,      *)
(*       mapCategory                                                       *)
(*   src/src/pages/MainTabs/Scanner.jsx     the Scanner screen             *)
(*   src/src/services/storageService.js     getUserId, uploadItemImage     *)
(*   src/src/pages/MainTabs/Home.jsx        the range of amountLeft        *)
(*   src/unnamed/part_001                   BACKEND_CONFIG                 *)
(*                                                                         *)
(* JavaScript values are records [t, s, n]: t is the type tag, s the       *)
(* string payload, n the numeric payload.  Numbers that the source keeps   *)
(* as fractions (confidence) are held in hundredths: 0.91 is 91.           *)
(***************************************************************************)
EXTENDS Integers, Sequences, FiniteSets, TLC

\* ------------------------------------------------------------------ bounds

\* Longest detected_items array of a detection response (pure-function runs).
MaxItems == 3
\* The clock is observed in steps of TickMs milliseconds ...
TickMs == 5000
\* ... up to MaxTicks steps,
MaxTicks == 8
\* and one synchronous call spans at most MaxSkew of them.
MaxSkew == 1
\* Scans the user starts in one run of the Scanner screen.
MaxScans == 2
\* handleCapture invocations that can be in flight together.
MaxCaptures == 2
\* Items on the Home screen, and handler calls and dialog choices there.
MaxHomeItems == 2
MaxHomeCalls == 3
\* handleAddToFridge invocations that can be in flight together,
MaxAdds == 2
\* and in one run of the Scanner screen.
MaxAddCalls == 3
\* Scans and clock ticks in the runs that add to the fridge.
MaxFridgeScans == 1
MaxFridgeTicks == 2

\* ------------------------------------------------------ JavaScript values

JsUndefined == [t |-> "undefined", s |-> "", n |-> 0]
JsNull == [t |-> "null", s |-> "", n |-> 0]
JsString(str) == [t |-> "string", s |-> str, n |-> 0]
JsNumber(num) == [t |-> "number", s |-> "", n |-> num]
JsTrue == [t |-> "boolean", s |-> "", n |-> 1]
\* a function object, named by the property it was read from
JsFunction(name) == [t |-> "function", s |-> name, n |-> 0]
\* any other object; s is what String(v) gives
JsObject(str) == [t |-> "object", s |-> str, n |-> 0]

\* ToBoolean
Truthy(v) ==
    CASE v.t = "undefined" -> FALSE
      [] v.t = "null" -> FALSE
      [] v.t = "string" -> v.s # ""
      [] v.t = "number" -> v.n # 0
      [] v.t = "boolean" -> v.n = 1
      [] OTHER -> TRUE

\* a || b
JsOr(a, b) == IF Truthy(a) THEN a ELSE b

\* String(v), for the values that reach a string conversion
JsToString(v) ==
    CASE v.t = "undefined" -> "undefined"
      [] v.t = "null" -> "null"
      [] v.t = "string" -> v.s
      [] v.t = "number" -> ToString(v.n)
      [] v.t = "boolean" -> IF v.n = 1 THEN "true" ELSE "false"
      [] OTHER -> v.s

\* The properties every plain object inherits from Object.prototype.
ObjectPrototype ==
    [p \in {"constructor", "toString", "valueOf", "hasOwnProperty",
            "isPrototypeOf", "propertyIsEnumerable", "toLocaleString"}
        |-> JsFunction(p)]
    @@ [p \in {"__proto__"} |-> JsObject("[object Object]")]

\* obj[key] on a plain object literal with the own properties `own`
GetProperty(own, key) ==
    LET k == JsToString(key) IN
    IF k \in DOMAIN own THEN JsString(own[k])
    ELSE IF k \in DOMAIN ObjectPrototype THEN ObjectPrototype[k]
    ELSE JsUndefined

\* ------------------------------------------------------------------ clock

ClockValues == {k * TickMs : k \in 0..MaxTicks}

\* The values k successive reads of the clock can give, starting at `from`
\* and none later than `upto`: every nondecreasing sequence.
RECURSIVE ClockReads(_, _, _)
ClockReads(from, upto, k) ==
    IF k = 0 THEN {<<>>}
    ELSE UNION {{<<t>> \o r : r \in ClockReads(t, upto, k - 1)} :
                t \in {u \in ClockValues : u >= from /\ u <= upto}}

SkewLimit(from) == from + MaxSkew * TickMs

\* ------------------------------------------------- detectionService: pure

categoryMap ==
    [k \in {"fruit", "vegetable", "packaged"} |->
        CASE k = "fruit" -> "fruits"
          [] k = "vegetable" -> "vegetables"
          [] k = "packaged" -> "packaged"]

mapCategory(backendCategory) ==
    JsOr(GetProperty(categoryMap, backendCategory), JsString("other"))

\* An id built from the clock read alone.
DetectedIdWithoutIndex(ts, index) == "detected-" \o ToString(ts)

\* `detected-${Date.now()}-${index}`
DetectedId(ts, index) == "detected-" \o ToString(ts) \o "-" \o ToString(index)

\* The record keeping the item's extra as it is.
DetectedRecordKeepsExtra(item, index, idRead, atRead) ==
    [id |-> DetectedId(idRead, index),
     name |-> item.label,
     category |-> mapCategory(item.category),
     confidence |-> item.confidence,
     ocrText |-> item.extra,
     detectedAt |-> atRead]

\* The record built for the item at 0-based position index; idRead and atRead
\* are the clock values that Date.now() and new Date() return for it.
DetectedRecord(item, index, idRead, atRead) ==
    [id |-> DetectedId(idRead, index),
     name |-> item.label,
     category |-> mapCategory(item.category),
     confidence |-> item.confidence,
     ocrText |-> JsOr(item.extra, JsNull),
     detectedAt |-> atRead]

TypeError(msg) == [name |-> "TypeError", message |-> msg]
NoError == [name |-> "", message |-> ""]

\* processDetectionResults taking an empty detected_items for a failure.
processDetectionResultsEmptyThrows(detectionResponse, reads) ==
    IF detectionResponse.kind = "null"
    THEN [kind |-> "throw", items |-> <<>>,
          error |-> TypeError("Cannot read properties of null")]
    ELSE IF detectionResponse.kind # "object"
            \/ ~detectionResponse.detected_items.present
    THEN [kind |-> "throw", items |-> <<>>,
          error |-> TypeError("Cannot read properties of undefined (reading 'map')")]
    ELSE IF detectionResponse.detected_items.arr = <<>>
    THEN [kind |-> "throw", items |-> <<>>,
          error |-> [name |-> "Error", message |-> "No items detected"]]
    ELSE LET arr == detectionResponse.detected_items.arr IN
         [kind |-> "return",
          items |-> [i \in 1..Len(arr) |->
                        DetectedRecord(arr[i], i - 1,
                                       reads[2 * i - 1], reads[2 * i])],
          error |-> NoError]

\* processDetectionResults returning the records last item first.
processDetectionResultsReversed(detectionResponse, reads) ==
    IF detectionResponse.kind = "null"
    THEN [kind |-> "throw", items |-> <<>>,
          error |-> TypeError("Cannot read properties of null")]
    ELSE IF detectionResponse.kind # "object"
            \/ ~detectionResponse.detected_items.present
    THEN [kind |-> "throw", items |-> <<>>,
          error |-> TypeError("Cannot read properties of undefined (reading 'map')")]
    ELSE LET arr == detectionResponse.detected_items.arr
             n == Len(arr)
         IN [kind |-> "return",
             items |-> [i \in 1..n |->
                           DetectedRecord(arr[n + 1 - i], n - i,
                                          reads[2 * i - 1], reads[2 * i])],
             error |-> NoError]

\* processDetectionResults(detectionResponse); reads are the 2n clock reads
\* of the call, in program order.  The result is a return value or a throw.
processDetectionResults(detectionResponse, reads) ==
    IF detectionResponse.kind = "null"
    THEN [kind |-> "throw", items |-> <<>>,
          error |-> TypeError("Cannot read properties of null")]
    ELSE IF detectionResponse.kind # "object"
            \/ ~detectionResponse.detected_items.present
    THEN [kind |-> "throw", items |-> <<>>,
          error |-> TypeError("Cannot read properties of undefined (reading 'map')")]
    ELSE LET arr == detectionResponse.detected_items.arr IN
         [kind |-> "return",
          items |-> [i \in 1..Len(arr) |->
                        DetectedRecord(arr[i], i - 1,
                                       reads[2 * i - 1], reads[2 * i])],
          error |-> NoError]

\* Number of clock reads processDetectionResults makes on a response.
ReadCount(detectionResponse) ==
    IF detectionResponse.kind = "object"
       /\ detectionResponse.detected_items.present
    THEN 2 * Len(detectionResponse.detected_items.arr)
    ELSE 0

\* ----------------------------------------------------- detection responses

DetectedItem(label, category, confidence, extra) ==
    [label |-> label, category |-> category,
     confidence |-> confidence, extra |-> extra]

\* The items of README's example response, and items a backend can send
\* that the client does not expect.
Apple == DetectedItem(JsString("apple"), JsString("fruit"), JsNumber(91), JsNull)
MilkPacket ==
    DetectedItem(JsString("Milk Packet"), JsString("packaged"), JsNumber(85),
                 JsString("AMUL MILK"))
Carrot ==
    DetectedItem(JsString("carrot"), JsString("vegetable"), JsNumber(39),
                 JsUndefined)
Cheese ==
    DetectedItem(JsString("cheese"), JsString("dairy"), JsNumber(100),
                 JsString(""))
Box ==
    DetectedItem(JsString("box"), JsString("constructor"), JsNumber(50), JsNull)
Nameless ==
    DetectedItem(JsString(""), JsString(""), JsNumber(60), JsNull)
Banana ==
    DetectedItem(JsString("banana"), JsUndefined, JsNumber(150), JsNull)
Blank ==
    DetectedItem(JsUndefined, JsString("toString"), JsUndefined, JsUndefined)

ItemInputs == {Apple, MilkPacket, Carrot, Cheese, Box, Nameless, Banana, Blank}

RECURSIVE SeqsUpTo(_, _)
SeqsUpTo(S, k) ==
    IF k = 0 THEN {<<>>}
    ELSE SeqsUpTo(S, k - 1)
         \cup {Append(q, x) : q \in {r \in SeqsUpTo(S, k - 1) : Len(r) = k - 1},
                              x \in S}

\* A parsed JSON body.  kind: "object", "null", "other" (a JSON string, number,
\* boolean or array) or "invalid" (not JSON).
JsonObject(items, hasItems, degraded, detail) ==
    [kind |-> "object",
     detected_items |-> [present |-> hasItems, arr |-> items],
     degraded |-> degraded, detail |-> detail]
JsonNull == [JsonObject(<<>>, FALSE, JsUndefined, JsUndefined) EXCEPT !.kind = "null"]
JsonOther == [JsonObject(<<>>, FALSE, JsUndefined, JsUndefined) EXCEPT !.kind = "other"]
NotJson == [JsonObject(<<>>, FALSE, JsUndefined, JsUndefined) EXCEPT !.kind = "invalid"]

ResponseInputs ==
    {JsonObject(q, TRUE, JsUndefined, JsUndefined) : q \in SeqsUpTo(ItemInputs, MaxItems)}
    \cup {JsonObject(<<>>, FALSE, JsUndefined, JsUndefined), JsonNull}

NotCalled == [kind |-> "none", items |-> <<>>, error |-> NoError]

\* ---------------------------------------------------------------- backend

\* BACKEND_CONFIG.TIMEOUT
BACKEND_CONFIG_TIMEOUT == 30000

\* response.ok
IsOk(status) == status >= 200 /\ status <= 299

CannedItems == <<Apple, MilkPacket>>

\* The Detector Adapter's minimum confidence (0.4).
MIN_CONFIDENCE == 40

\* What the detection model can find on a photo.
DetectorRegions ==
    {<<>>, <<Carrot, MilkPacket>>, <<Apple, Carrot, MilkPacket>>}

\* A Detector Adapter that passes every region on.
DetectorAdapterKeepsAll(regions) == regions

\* The Detector Adapter: regions below the minimum confidence are discarded
\* before the response is built.
DetectorAdapter(regions) ==
    SelectSeq(regions, LAMBDA r : r.confidence.n >= MIN_CONFIDENCE)

\* The answer to POST /detect when the detector ran and found `regions`.
DetectionOf(regions) ==
    [status |-> 200,
     body |-> JsonObject(DetectorAdapter(regions), TRUE, JsUndefined, JsUndefined)]

\* What the backend can answer to POST /detect: a status and a body.
DetectReplies ==
    {DetectionOf(regions) : regions \in DetectorRegions}
    \cup
    [status : {200},
     body : {\* demo mode: the canned items, flagged
             JsonObject(CannedItems, TRUE, JsTrue, JsUndefined),
             JsonObject(<<>>, FALSE, JsUndefined, JsUndefined),
             JsonNull, NotJson}]
    \cup
    [status : {422, 500},
     body : {JsonObject(<<>>, FALSE, JsUndefined, JsString("Invalid image data")),
             JsonObject(<<>>, FALSE, JsUndefined, JsString("")),
             JsonObject(<<>>, FALSE, JsUndefined, JsObject("[object Object]")),
             JsonObject(<<>>, FALSE, JsUndefined, JsUndefined),
             JsonNull, JsonOther, NotJson}]

NoReply == [status |-> 0, body |-> NotJson]

\* ------------------------------------------------------------------ errors

Error(name, msg) == [name |-> name, message |-> msg]
AbortError == Error("AbortError", "Aborted")
NetworkError == Error("TypeError", "Network request failed")
JsonSyntaxError == Error("SyntaxError", "JSON Parse error: Unexpected token")
CameraError == Error("CameraError", "Camera is not ready")
FileError == Error("Error", "ENOENT: no such file")

\* ------------------------------------------------------------------ state

VARIABLES
    now,                \* the clock, in ms
    detectionResponse,  \* argument of the processDetectionResults call
    processed,          \* its result: NotCalled, a return or a throw
    \* Scanner.jsx, useState
    isScanning, capturedBase64, detectedItems, showResults, error,
    rendered,           \* the state as of the last render (what is on screen)
    alert,              \* the Alert on screen, or NoAlert
    cameraRef,          \* camera.current is set
    captures,           \* the handleCapture invocations, by slot
    scanCount,          \* photos taken so far
    \* detectionService.js, called directly
    healthCall,         \* the checkBackendHealth call
    inventoryCall,      \* the addToInventory call
    \* Scanner.jsx, adding to the fridge
    adds,               \* the handleAddToFridge invocations, by slot
    addAll,             \* the handleAddAll invocation
    addCount,           \* handleAddToFridge invocations so far
    storage,            \* the objects of the fridge-photos bucket
    fridge,             \* the inventory: the items added, in order
    addedIds,           \* the detected item each of them was added for
    authUser,           \* supabase.auth has a user
    isAuthenticated,    \* useAuth().isAuthenticated as of the last render
    \* Home.jsx
    homeItems,          \* the items listed (selectFilteredItems)
    removeDialog,       \* the id the 'Remove Item' dialog asks about, or 0
    dispatched,         \* the last action dispatched by Home, numbered
    homeCall            \* the last handler call or dialog choice, numbered

scannerVars ==
    <<isScanning, capturedBase64, detectedItems, showResults, error,
      rendered, alert, cameraRef, captures, scanCount>>
pureVars == <<detectionResponse, processed>>
apiVars == <<healthCall, inventoryCall>>
fridgeVars ==
    <<adds, addAll, addCount, storage, fridge, addedIds, authUser,
      isAuthenticated>>
homeVars == <<homeItems, removeDialog, dispatched, homeCall>>
vars == <<now, pureVars, scannerVars, apiVars, homeVars, fridgeVars>>

CaptureIds == 1..MaxCaptures
MaxNow == MaxTicks * TickMs
NoTimer == -1
NoAlert == [title |-> "", message |-> ""]
Pending == [kind |-> "pending", data |-> NotJson, error |-> NoError]
IdleCapture ==
    [pc |-> "idle", photo |-> 0, tappedAt |-> 0, timer |-> NoTimer,
     regions |-> <<>>, reply |-> NoReply, outcome |-> Pending]

Snapshot(scanning, base64, items, results) ==
    [isScanning |-> scanning, capturedBase64 |-> base64,
     detectedItems |-> items, showResults |-> results]

PureIdle ==
    /\ detectionResponse = JsonNull
    /\ processed = NotCalled

ScannerInit ==
    /\ isScanning = FALSE
    /\ capturedBase64 = JsNull
    /\ detectedItems = <<>>
    /\ showResults = FALSE
    /\ error = JsNull
    /\ rendered = Snapshot(FALSE, JsNull, <<>>, FALSE)
    /\ alert = NoAlert
    /\ cameraRef = FALSE
    /\ captures = [c \in CaptureIds |-> IdleCapture]
    /\ scanCount = 0

IdleCall ==
    [pc |-> "idle", timer |-> NoTimer, reply |-> NoReply, outcome |-> Pending]

ApiIdle ==
    /\ healthCall = IdleCall
    /\ inventoryCall = IdleCall

AddIds == 1..MaxAdds

NoItem == DetectedRecord(DetectedItem(JsNull, JsNull, JsNull, JsNull), 0, 0, 0)
NoPayload ==
    [name |-> JsNull, category |-> JsNull, expiryDate |-> 0, amountLeft |-> 0,
     quantity |-> 0, unit |-> "", notes |-> "",
     imageUrl |-> JsUndefined, imagePath |-> JsUndefined]
IdleAdd ==
    [pc |-> "idle", item |-> NoItem, base64 |-> JsNull, inAll |-> FALSE,
     path |-> "", data |-> "", today |-> 0, payload |-> NoPayload]
IdleAddAll == [running |-> FALSE, queue |-> <<>>, base64 |-> JsNull]

FridgeInit ==
    /\ adds = [a \in AddIds |-> IdleAdd]
    /\ addAll = IdleAddAll
    /\ addCount = 0
    /\ storage = {}
    /\ fridge = <<>>
    /\ addedIds = <<>>
    /\ authUser = TRUE
    /\ isAuthenticated = TRUE

NoDispatch == [n |-> 0, type |-> "", id |-> 0, amountLeft |-> 0]
NoHomeCall == [n |-> 0, kind |-> "", id |-> 0, change |-> 0]

HomeIdle ==
    /\ removeDialog = 0
    /\ dispatched = NoDispatch
    /\ homeCall = NoHomeCall

HomeInit ==
    /\ homeItems = <<>>
    /\ HomeIdle

Init ==
    /\ now = 0
    /\ PureIdle
    /\ ScannerInit
    /\ ApiIdle
    /\ FridgeInit
    /\ HomeInit

\* --------------------------------------- processDetectionResults, directly

PureInit ==
    /\ now = 0
    /\ detectionResponse \in ResponseInputs
    /\ processed = NotCalled
    /\ ScannerInit
    /\ ApiIdle
    /\ FridgeInit
    /\ HomeInit

CallProcessDetectionResults ==
    /\ processed.kind = "none"
    /\ \E reads \in ClockReads(now, SkewLimit(now), ReadCount(detectionResponse)) :
          /\ processed' = processDetectionResults(detectionResponse, reads)
          /\ now' = IF reads = <<>> THEN now ELSE reads[Len(reads)]
    /\ UNCHANGED <<detectionResponse, scannerVars, apiVars, homeVars,
                   fridgeVars>>

PureNext == CallProcessDetectionResults

PureSpec == PureInit /\ [][PureNext]_vars

\* ------------------------------------------------------------ Scanner.jsx

Resolved(data) == [kind |-> "resolved", data |-> data, error |-> NoError]
Rejected(err) == [kind |-> "rejected", data |-> NotJson, error |-> err]

\* `a || b` on strings
StrOr(a, b) == IF a # "" THEN a ELSE b

\* RNFS.readFile(photo.path, 'base64')
Base64Of(photo) == JsString("base64:photo" \o ToString(photo))

\* The clock may reach t: within the horizon, and every capture that has not
\* yet set its timeout can still set one within the horizon.
CanAdvanceTo(t) ==
    /\ t <= MaxNow
    /\ \A c \in CaptureIds :
          captures[c].pc \in {"takePhoto", "readFile"}
              => t + BACKEND_CONFIG_TIMEOUT <= MaxNow

\* The slot a new handleCapture invocation runs in.
FreeSlot(c) ==
    /\ captures[c].pc = "idle"
    /\ \A d \in CaptureIds : d < c => captures[d].pc # "idle"

\* detectFoodItems, lines 38-43: the catch block
detectFoodItemsCatch(err) ==
    IF err.name = "AbortError"
    THEN Error("Error", "Detection request timed out. Check if backend is running.")
    ELSE err

\* detectFoodItems, lines 31-34: what a non-OK response throws
detectFoodItemsNotOk(reply) ==
    IF reply.body.kind = "null"
    THEN TypeError("Cannot read properties of null (reading 'detail')")
    ELSE LET detail == IF reply.body.kind = "object"
                       THEN reply.body.detail ELSE JsUndefined
             fallback == JsString("Detection failed: " \o ToString(reply.status))
         IN Error("Error", JsToString(JsOr(detail, fallback)))

\* handleCapture, lines 75-85: catch and finally, for invocation c whose
\* detectFoodItems call (if it made one) ended as `outcome`
ScanFailed(c, err, outcome) ==
    /\ error' = JsString(StrOr(err.message,
                               "Failed to scan. Make sure backend is running."))
    /\ alert' = [title |-> "Scan Failed",
                 message |-> StrOr(err.message,
                     "Could not detect items. Check if backend server is running.")]
    /\ isScanning' = FALSE
    /\ captures' = [captures EXCEPT ![c] =
                        [@ EXCEPT !.pc = "idle", !.tappedAt = 0,
                                  !.timer = NoTimer, !.outcome = outcome]]

\* The Camera view is mounted and its ref assigned.
CameraMounted ==
    /\ ~cameraRef
    /\ cameraRef' = TRUE
    /\ UNCHANGED <<now, pureVars, apiVars, homeVars, fridgeVars, isScanning,
                   capturedBase64, detectedItems, showResults, error,
                   rendered, alert, captures, scanCount>>

\* The capture button is pressed: handleCapture up to its first await.  The
\* button is disabled while the rendered isScanning is true; the results modal
\* and an alert cover it; without camera.current the handler returns at once.
\* The state set in the press handler is rendered before the next event.
\* A capture button that stays enabled while a scan runs.
TapCaptureWhileScanning(c) ==
    /\ FreeSlot(c)
    /\ alert = NoAlert
    /\ ~rendered.showResults
    /\ cameraRef
    /\ scanCount < MaxScans
    /\ now + TickMs + BACKEND_CONFIG_TIMEOUT <= MaxNow
    /\ isScanning' = TRUE
    /\ error' = JsNull
    /\ rendered' = Snapshot(TRUE, capturedBase64, detectedItems, showResults)
    /\ scanCount' = scanCount + 1
    /\ captures' = [captures EXCEPT ![c] =
                        [IdleCapture EXCEPT !.pc = "takePhoto",
                                            !.photo = scanCount + 1,
                                            !.tappedAt = now]]
    /\ UNCHANGED <<now, pureVars, apiVars, homeVars, fridgeVars,
                   capturedBase64, detectedItems, showResults, alert,
                   cameraRef>>

TapCapture(c) ==
    /\ FreeSlot(c)
    /\ alert = NoAlert
    /\ ~rendered.isScanning
    /\ ~rendered.showResults
    /\ cameraRef
    /\ scanCount < MaxScans
    /\ now + TickMs + BACKEND_CONFIG_TIMEOUT <= MaxNow
    /\ isScanning' = TRUE
    /\ error' = JsNull
    /\ rendered' = Snapshot(TRUE, capturedBase64, detectedItems, showResults)
    /\ scanCount' = scanCount + 1
    /\ captures' = [captures EXCEPT ![c] =
                        [IdleCapture EXCEPT !.pc = "takePhoto",
                                            !.photo = scanCount + 1,
                                            !.tappedAt = now]]
    /\ UNCHANGED <<now, pureVars, apiVars, homeVars, fridgeVars,
                   capturedBase64, detectedItems, showResults, alert,
                   cameraRef>>

\* Taking the photo takes time: the clock has moved on since the press.
TakePhotoResolves(c) ==
    /\ captures[c].pc = "takePhoto"
    /\ now > captures[c].tappedAt
    /\ captures' = [captures EXCEPT ![c] =
                        [@ EXCEPT !.pc = "readFile", !.tappedAt = 0]]
    /\ UNCHANGED <<now, pureVars, apiVars, homeVars, fridgeVars, isScanning,
                   capturedBase64, detectedItems, showResults, error,
                   rendered, alert, cameraRef, scanCount>>

TakePhotoRejects(c) ==
    /\ captures[c].pc = "takePhoto"
    /\ ScanFailed(c, CameraError, Pending)
    /\ UNCHANGED <<now, pureVars, apiVars, homeVars, fridgeVars,
                   capturedBase64, detectedItems, showResults, rendered,
                   cameraRef, scanCount>>

\* readFile resolves: setCapturedBase64, then detectFoodItems up to its await
\* of fetch (lines 15-27): the timeout is set and the request sent.
\* handleCapture keeping the image of the scan before.
ReadFileResolvesKeepsImage(c) ==
    /\ captures[c].pc = "readFile"
    /\ captures' = [captures EXCEPT ![c] =
                        [@ EXCEPT !.pc = "fetch",
                                  !.timer = now + BACKEND_CONFIG_TIMEOUT]]
    /\ UNCHANGED <<now, pureVars, apiVars, homeVars, fridgeVars, isScanning,
                   capturedBase64, detectedItems, showResults, error,
                   rendered, alert, cameraRef, scanCount>>

ReadFileResolves(c) ==
    /\ captures[c].pc = "readFile"
    /\ capturedBase64' = Base64Of(captures[c].photo)
    /\ captures' = [captures EXCEPT ![c] =
                        [@ EXCEPT !.pc = "fetch",
                                  !.timer = now + BACKEND_CONFIG_TIMEOUT]]
    /\ UNCHANGED <<now, pureVars, apiVars, homeVars, fridgeVars, isScanning,
                   detectedItems, showResults, error, rendered, alert,
                   cameraRef, scanCount>>

ReadFileRejects(c) ==
    /\ captures[c].pc = "readFile"
    /\ ScanFailed(c, FileError, Pending)
    /\ UNCHANGED <<now, pureVars, apiVars, homeVars, fridgeVars,
                   capturedBase64, detectedItems, showResults, rendered,
                   cameraRef, scanCount>>

\* The response's status line and headers arrive: fetch resolves, the timeout
\* is cleared (line 29) and the body is awaited.
FetchResolves(c) ==
    /\ captures[c].pc = "fetch"
    /\ \E regions \in DetectorRegions :
       \E reply \in IF regions = <<>> THEN DetectReplies
                    ELSE {DetectionOf(regions)} :
          captures' = [captures EXCEPT ![c] =
                          [@ EXCEPT !.pc = IF IsOk(reply.status)
                                           THEN "okBody" ELSE "errBody",
                                    !.timer = NoTimer,
                                    !.regions = IF reply = DetectionOf(regions)
                                                THEN regions ELSE <<>>,
                                    !.reply = reply]]
    /\ UNCHANGED <<now, pureVars, apiVars, homeVars, fridgeVars, isScanning,
                   capturedBase64, detectedItems, showResults, error,
                   rendered, alert, cameraRef, scanCount>>

\* fetch rejects (no connection).  The timeout is left set; when it fires it
\* aborts a request that has ended, which does nothing, so it is dropped here.
FetchRejects(c) ==
    /\ captures[c].pc = "fetch"
    /\ LET err == detectFoodItemsCatch(NetworkError) IN
          ScanFailed(c, err, Rejected(err))
    /\ UNCHANGED <<now, pureVars, apiVars, homeVars, fridgeVars,
                   capturedBase64, detectedItems, showResults, rendered,
                   cameraRef, scanCount>>

\* The timeout fires: controller.abort() rejects the pending fetch.
DetectTimeout(c) ==
    /\ captures[c].pc = "fetch"
    /\ captures[c].timer # NoTimer
    /\ now >= captures[c].timer
    /\ LET err == detectFoodItemsCatch(AbortError) IN
          ScanFailed(c, err, Rejected(err))
    /\ UNCHANGED <<now, pureVars, apiVars, homeVars, fridgeVars,
                   capturedBase64, detectedItems, showResults, rendered,
                   cameraRef, scanCount>>

\* The body of a non-OK response has been read (lines 31-34).
ErrorBodyRead(c) ==
    /\ captures[c].pc = "errBody"
    /\ LET err == detectFoodItemsCatch(detectFoodItemsNotOk(captures[c].reply)) IN
          ScanFailed(c, err, Rejected(err))
    /\ UNCHANGED <<now, pureVars, apiVars, homeVars, fridgeVars,
                   capturedBase64, detectedItems, showResults, rendered,
                   cameraRef, scanCount>>

\* The body of an OK response has been read but is not JSON.
OkBodyInvalid(c) ==
    /\ captures[c].pc = "okBody"
    /\ captures[c].reply.body.kind = "invalid"
    /\ LET err == detectFoodItemsCatch(JsonSyntaxError) IN
          ScanFailed(c, err, Rejected(err))
    /\ UNCHANGED <<now, pureVars, apiVars, homeVars, fridgeVars,
                   capturedBase64, detectedItems, showResults, rendered,
                   cameraRef, scanCount>>

\* The body of an OK response has been read: detectFoodItems returns the data
\* (lines 36-37) and handleCapture goes on (lines 70-73, 83-85).
OkBodyRead(c) ==
    /\ captures[c].pc = "okBody"
    /\ captures[c].reply.body.kind # "invalid"
    /\ LET data == captures[c].reply.body IN
       \E reads \in ClockReads(now, SkewLimit(now), ReadCount(data)) :
          LET items == processDetectionResults(data, reads)
              last == IF reads = <<>> THEN now ELSE reads[Len(reads)]
          IN /\ CanAdvanceTo(last)
             /\ IF items.kind = "throw"
                THEN /\ ScanFailed(c, items.error, Resolved(data))
                     /\ UNCHANGED <<now, detectedItems, showResults>>
                ELSE /\ detectedItems' = items.items
                     /\ showResults' = TRUE
                     /\ isScanning' = FALSE
                     /\ now' = last
                     /\ captures' = [captures EXCEPT ![c] =
                                        [@ EXCEPT !.pc = "idle",
                                                  !.outcome = Resolved(data)]]
                     /\ UNCHANGED <<error, alert>>
    /\ UNCHANGED <<pureVars, apiVars, homeVars, fridgeVars, capturedBase64,
                   rendered, cameraRef, scanCount>>

\* React renders the state set since the last render.
Render ==
    /\ rendered # Snapshot(isScanning, capturedBase64, detectedItems, showResults)
    /\ rendered' = Snapshot(isScanning, capturedBase64, detectedItems, showResults)
    /\ UNCHANGED <<now, pureVars, apiVars, homeVars, fridgeVars, isScanning,
                   capturedBase64, detectedItems, showResults, error, alert,
                   cameraRef, captures, scanCount>>

\* The close button, 'Scan Again' or 'Try Again' of the results modal.
CloseResults ==
    /\ alert = NoAlert
    /\ rendered.showResults
    /\ showResults' = FALSE
    /\ rendered' = Snapshot(isScanning, capturedBase64, detectedItems, FALSE)
    /\ UNCHANGED <<now, pureVars, apiVars, homeVars, fridgeVars, isScanning,
                   capturedBase64, detectedItems, error, alert, cameraRef,
                   captures, scanCount>>

\* 'OK' of an alert.
DismissAlert ==
    /\ alert # NoAlert
    /\ alert' = NoAlert
    /\ UNCHANGED <<now, pureVars, apiVars, homeVars, fridgeVars, isScanning,
                   capturedBase64, detectedItems, showResults, error,
                   rendered, cameraRef, captures, scanCount>>

\* Time passes.
Tick ==
    /\ CanAdvanceTo(now + TickMs)
    /\ now' = now + TickMs
    /\ UNCHANGED <<pureVars, scannerVars, apiVars, homeVars, fridgeVars>>

Next ==
    \/ CameraMounted
    \/ \E c \in CaptureIds :
          \/ TapCapture(c)
          \/ TakePhotoResolves(c)
          \/ TakePhotoRejects(c)
          \/ ReadFileResolves(c)
          \/ ReadFileRejects(c)
          \/ FetchResolves(c)
          \/ FetchRejects(c)
          \/ DetectTimeout(c)
          \/ ErrorBodyRead(c)
          \/ OkBodyInvalid(c)
          \/ OkBodyRead(c)
    \/ Render
    \/ CloseResults
    \/ DismissAlert
    \/ Tick

Spec == Init /\ [][Next]_vars

\* Timers fire and time passes; React renders what was set.  Nothing makes
\* the backend answer, the network deliver, or the user tap.
LiveSpec ==
    /\ Spec
    /\ WF_vars(Tick)
    /\ WF_vars(Render)
    /\ \A c \in CaptureIds : WF_vars(DetectTimeout(c))

\* As LiveSpec, and the device answers: the camera and the file system
\* settle what they were asked.  Still nothing makes the backend answer.
ScanLiveSpec ==
    /\ LiveSpec
    /\ \A c \in CaptureIds :
          /\ WF_vars(TakePhotoResolves(c) \/ TakePhotoRejects(c))
          /\ WF_vars(ReadFileResolves(c) \/ ReadFileRejects(c))

\* As ScanLiveSpec, and every response that began is read to its end.
SettleSpec ==
    /\ ScanLiveSpec
    /\ \A c \in CaptureIds :
          /\ WF_vars(ErrorBodyRead(c))
          /\ WF_vars(OkBodyRead(c) \/ OkBodyInvalid(c))

\* ------------------------------ Scanner.jsx: adding to the fridge; storage

DAY_MS == 86400000
\* The calendar day of a time, as toISOString().split('T')[0] gives it.
DayOf(t) == t \div DAY_MS

\* Amounts are kept in hundredths.
Fraction(n) == n * 100

\* Home.jsx: Math.max(0, Math.min(1, ...)), the range of amountLeft
HomeAmountRange == Fraction(0)..Fraction(1)

\* expiryDate.setDate(expiryDate.getDate() - 7)
ExpiryDateInThePast(today) == DayOf(today - 7 * DAY_MS)

\* const expiryDate = new Date(); expiryDate.setDate(expiryDate.getDate() + 7)
ExpiryDate(today) == DayOf(today + 7 * DAY_MS)

\* `OCR: ${item.ocrText}` when the item has text
NotesOf(item) ==
    IF Truthy(item.ocrText) THEN "OCR: " \o JsToString(item.ocrText) ELSE ""

\* The argument of addFridgeItem.
FridgePayload(item, today, imageUrl, imagePath) ==
    [name |-> item.name,
     category |-> item.category,
     expiryDate |-> ExpiryDate(today),
     amountLeft |-> Fraction(100),
     quantity |-> 1,
     unit |-> "item",
     notes |-> NotesOf(item),
     imageUrl |-> imageUrl,
     imagePath |-> imagePath]

\* storageService.js: `${userId}/${timestamp}.jpg` and its public URL
USER_ID == "user-1"
ImagePath(timestamp) == USER_ID \o "/" \o ToString(timestamp) \o ".jpg"
PublicUrl(path) == "https://storage/fridge-photos/" \o path

\* The lowest free slot takes the next handleAddToFridge invocation.
FreeAddSlot(a) ==
    /\ adds[a].pc = "idle"
    /\ \A b \in AddIds : b < a => adds[b].pc # "idle"

\* What unwrap() can throw: a rejectWithValue payload or a serialized error.
DispatchErrors ==
    {[message |-> "Network request failed", payload |-> ""],
     [message |-> "", payload |-> "Could not save item"],
     [message |-> "", payload |-> ""]}

\* handleAddToFridge(item) up to its first await, in a render whose
\* capturedBase64 is base64: the upload when there is a photo, else the
\* dispatch.
BeginAdd(item, base64, inAll) ==
    IF Truthy(base64)
    THEN [IdleAdd EXCEPT !.pc = "getUser", !.item = item,
                         !.base64 = base64, !.inAll = inAll]
    ELSE [IdleAdd EXCEPT !.pc = "dispatch", !.item = item,
                         !.base64 = base64, !.inAll = inAll,
                         !.today = now,
                         !.payload = FridgePayload(item, now, JsUndefined,
                                                   JsUndefined)]

\* handleAddToFridge(item) has returned: a handleAddAll that awaited it goes
\* on with its next item, or closes the results after the last.
FinishAdd(a) ==
    IF ~adds[a].inAll
    THEN /\ adds' = [adds EXCEPT ![a] = IdleAdd]
         /\ UNCHANGED <<addAll, showResults>>
    ELSE IF addAll.queue # <<>>
    THEN /\ adds' = [adds EXCEPT ![a] =
                        BeginAdd(Head(addAll.queue), addAll.base64, TRUE)]
         /\ addAll' = [addAll EXCEPT !.queue = Tail(@)]
         /\ UNCHANGED showResults
    ELSE /\ adds' = [adds EXCEPT ![a] = IdleAdd]
         /\ addAll' = IdleAddAll
         /\ showResults' = FALSE

\* The catch of handleAddToFridge.
AddFailed(a, message) ==
    /\ alert' = [title |-> "Error",
                 message |-> StrOr(message, "Failed to add item")]
    /\ FinishAdd(a)
    /\ UNCHANGED <<now, pureVars, apiVars, homeVars, isScanning,
                   capturedBase64, detectedItems, error, rendered, cameraRef,
                   captures, scanCount, addCount, storage, fridge, addedIds,
                   authUser, isAuthenticated>>

NotSignedIn ==
    [title |-> "Not signed in",
     message |-> "Please sign in to add items to your fridge."]

\* The add button of the i-th item shown, signed in.
TapAdd(a, i) ==
    /\ alert = NoAlert
    /\ rendered.showResults
    /\ i \in DOMAIN rendered.detectedItems
    /\ isAuthenticated
    /\ FreeAddSlot(a)
    /\ addCount < MaxAddCalls
    /\ adds' = [adds EXCEPT ![a] =
                   BeginAdd(rendered.detectedItems[i],
                            rendered.capturedBase64, FALSE)]
    /\ addCount' = addCount + 1
    /\ UNCHANGED <<now, pureVars, apiVars, homeVars, scannerVars, addAll,
                   storage, fridge, addedIds, authUser, isAuthenticated>>

\* The add button, not signed in.
TapAddNotSignedIn(i) ==
    /\ alert = NoAlert
    /\ rendered.showResults
    /\ i \in DOMAIN rendered.detectedItems
    /\ ~isAuthenticated
    /\ alert' = NotSignedIn
    /\ UNCHANGED <<now, pureVars, apiVars, homeVars, fridgeVars, isScanning,
                   capturedBase64, detectedItems, showResults, error,
                   rendered, cameraRef, captures, scanCount>>

\* 'Add All to Fridge', signed in: handleAddAll starts on the list of the
\* render it was pressed in.  One handleAddAll runs at a time.
TapAddAll(a) ==
    /\ alert = NoAlert
    /\ rendered.showResults
    /\ rendered.detectedItems # <<>>
    /\ isAuthenticated
    /\ ~addAll.running
    /\ FreeAddSlot(a)
    /\ addCount + Len(rendered.detectedItems) <= MaxAddCalls
    /\ adds' = [adds EXCEPT ![a] =
                   BeginAdd(Head(rendered.detectedItems),
                            rendered.capturedBase64, TRUE)]
    /\ addAll' = [running |-> TRUE,
                  queue |-> Tail(rendered.detectedItems),
                  base64 |-> rendered.capturedBase64]
    /\ addCount' = addCount + Len(rendered.detectedItems)
    /\ UNCHANGED <<now, pureVars, apiVars, homeVars, scannerVars, storage,
                   fridge, addedIds, authUser, isAuthenticated>>

\* 'Add All to Fridge', not signed in: every handleAddToFridge returns at
\* its check (the last alert stays), then the results close.
TapAddAllNotSignedIn ==
    /\ alert = NoAlert
    /\ rendered.showResults
    /\ rendered.detectedItems # <<>>
    /\ ~isAuthenticated
    /\ alert' = NotSignedIn
    /\ showResults' = FALSE
    /\ UNCHANGED <<now, pureVars, apiVars, homeVars, fridgeVars, isScanning,
                   capturedBase64, detectedItems, error, rendered,
                   cameraRef, captures, scanCount>>

\* getUserId returning an id whether or not there is a user.
GetUserResolvesAnyUser(a) ==
    /\ adds[a].pc = "getUser"
    /\ adds' = [adds EXCEPT ![a] =
                   [@ EXCEPT !.pc = "resize", !.path = ImagePath(now)]]
    /\ UNCHANGED <<now, pureVars, apiVars, homeVars, scannerVars, addAll,
                   addCount, storage, fridge, addedIds, authUser,
                   isAuthenticated>>

\* getUserId: supabase.auth.getUser() answers; without a user it throws
\* before anything is written.  With one, the path is made from Date.now().
GetUserResolves(a) ==
    /\ adds[a].pc = "getUser"
    /\ IF authUser
       THEN /\ adds' = [adds EXCEPT ![a] =
                           [@ EXCEPT !.pc = "resize",
                                     !.path = ImagePath(now)]]
            /\ UNCHANGED <<now, pureVars, apiVars, homeVars, scannerVars,
                           addAll, addCount, storage, fridge, addedIds,
                           authUser, isAuthenticated>>
       ELSE AddFailed(a, "User not authenticated")

\* getUserId: supabase.auth.getUser() answers with an error.
GetUserFails(a) ==
    /\ adds[a].pc = "getUser"
    /\ AddFailed(a, "Auth session missing!")

\* The image is resized, or the resize or the fetch of its result fails and
\* the original is kept: either way there is image data of this photo to
\* upload.
ResizeSettles(a) ==
    /\ adds[a].pc = "resize"
    /\ adds' = [adds EXCEPT ![a] =
                   [@ EXCEPT !.pc = "upload", !.data = adds[a].base64.s]]
    /\ UNCHANGED <<now, pureVars, apiVars, homeVars, scannerVars, addAll,
                   addCount, storage, fridge, addedIds, authUser,
                   isAuthenticated>>

\* The storage answers the upload (upsert: false): an object at the path
\* is an error, otherwise the object is written and handleAddToFridge goes on
\* to dispatch addFridgeItem.
UploadResolves(a) ==
    /\ adds[a].pc = "upload"
    /\ IF \E o \in storage : o.path = adds[a].path
       THEN AddFailed(a, "The resource already exists")
       ELSE /\ storage' = storage \cup
                            {[path |-> adds[a].path, data |-> adds[a].data]}
            /\ adds' = [adds EXCEPT ![a] =
                           [@ EXCEPT !.pc = "dispatch",
                                     !.today = now,
                                     !.payload =
                                         FridgePayload(adds[a].item, now,
                                             JsString(PublicUrl(adds[a].path)),
                                             JsString(adds[a].path))]]
            /\ UNCHANGED <<now, pureVars, apiVars, homeVars, scannerVars,
                           addAll, addCount, fridge, addedIds, authUser,
                           isAuthenticated>>

\* The upload fails: nothing is written.
UploadFails(a) ==
    /\ adds[a].pc = "upload"
    /\ AddFailed(a, "Network request failed")

\* The items left when the one with this id is filtered out.
WithoutId(items, id) == SelectSeq(items, LAMBDA i : i.id # id)

\* handleAddToFridge removing the first item shown, whichever was added.
DispatchFulfilledRemovesFirst(a) ==
    /\ adds[a].pc = "dispatch"
    /\ fridge' = Append(fridge, [item |-> adds[a].payload,
                                 today |-> adds[a].today])
    /\ addedIds' = Append(addedIds, adds[a].item.id)
    /\ detectedItems' = IF detectedItems = <<>> THEN <<>>
                        ELSE Tail(detectedItems)
    /\ alert' = [title |-> "Added!",
                 message |-> JsToString(adds[a].item.name)
                                 \o " added to your fridge"]
    /\ FinishAdd(a)
    /\ UNCHANGED <<now, pureVars, apiVars, homeVars, isScanning,
                   capturedBase64, error, rendered, cameraRef, captures,
                   scanCount, addCount, storage, authUser, isAuthenticated>>

\* addFridgeItem is fulfilled: the item is in the fridge, and leaves the
\* detected list.
DispatchFulfilled(a) ==
    /\ adds[a].pc = "dispatch"
    /\ fridge' = Append(fridge, [item |-> adds[a].payload,
                                 today |-> adds[a].today])
    /\ addedIds' = Append(addedIds, adds[a].item.id)
    /\ detectedItems' = WithoutId(detectedItems, adds[a].item.id)
    /\ alert' = [title |-> "Added!",
                 message |-> JsToString(adds[a].item.name)
                                 \o " added to your fridge"]
    /\ FinishAdd(a)
    /\ UNCHANGED <<now, pureVars, apiVars, homeVars, isScanning,
                   capturedBase64, error, rendered, cameraRef, captures,
                   scanCount, addCount, storage, authUser, isAuthenticated>>

\* addFridgeItem is rejected.
DispatchRejected(a) ==
    /\ adds[a].pc = "dispatch"
    /\ \E err \in DispatchErrors :
          AddFailed(a, StrOr(err.message, err.payload))

\* The session ends (sign-out elsewhere, or expiry).
SessionEnds ==
    /\ authUser
    /\ authUser' = FALSE
    /\ UNCHANGED <<now, pureVars, apiVars, homeVars, scannerVars, adds,
                   addAll, addCount, storage, fridge, addedIds,
                   isAuthenticated>>

\* The auth context follows the session and the Scanner renders again.
AuthStateChanged ==
    /\ isAuthenticated # authUser
    /\ isAuthenticated' = authUser
    /\ rendered' = Snapshot(isScanning, capturedBase64, detectedItems,
                            showResults)
    /\ UNCHANGED <<now, pureVars, apiVars, homeVars, isScanning,
                   capturedBase64, detectedItems, showResults, error, alert,
                   cameraRef, captures, scanCount, adds, addAll, addCount,
                   storage, fridge, addedIds, authUser>>

\* The scans that end on a detection of items.
ItemReplies == {DetectionOf(regions) : regions \in DetectorRegions \ {<<>>}}

\* The Scanner screen with the scans that succeed, and the adds.
FridgeNext ==
    \/ CameraMounted
    \/ \E c \in CaptureIds :
          \/ TapCapture(c) /\ scanCount < MaxFridgeScans
          \/ TakePhotoResolves(c)
          \/ ReadFileResolves(c)
          \/ FetchResolves(c) /\ captures'[c].reply \in ItemReplies
          \/ OkBodyRead(c) /\ now' = now
    \/ \E a \in AddIds :
          \/ \E i \in 1..MaxItems : TapAdd(a, i)
          \/ TapAddAll(a)
          \/ GetUserResolves(a)
          \/ GetUserFails(a)
          \/ ResizeSettles(a)
          \/ UploadResolves(a)
          \/ UploadFails(a)
          \/ DispatchFulfilled(a)
          \/ DispatchRejected(a)
    \/ \E i \in 1..MaxItems : TapAddNotSignedIn(i)
    \/ TapAddAllNotSignedIn
    \/ SessionEnds
    \/ AuthStateChanged
    \/ Render
    \/ CloseResults
    \/ DismissAlert
    \/ Tick /\ now' <= MaxFridgeTicks * TickMs

FridgeSpec == Init /\ [][FridgeNext]_vars

\* ------------------------------- checkBackendHealth, addToInventory: calls

\* checkBackendHealth, line 53
HEALTH_TIMEOUT == 5000

Healthy ==
    [JsonObject(<<>>, FALSE, JsUndefined, JsUndefined) EXCEPT !.kind = "other"]

HealthReplies == [status : {200, 503}, body : {Healthy, NotJson}]

\* POST /inventory/add answers with the items, enriched
InventoryReplies ==
    [status : {200, 500},
     body : {JsonObject(CannedItems, TRUE, JsUndefined, JsUndefined), NotJson}]

CallCheckBackendHealth ==
    /\ healthCall.pc = "idle"
    /\ now + HEALTH_TIMEOUT <= MaxNow
    /\ healthCall' = [IdleCall EXCEPT !.pc = "fetch",
                                      !.timer = now + HEALTH_TIMEOUT]
    /\ UNCHANGED <<now, pureVars, scannerVars, fridgeVars, homeVars,
                   inventoryCall>>

\* fetch resolves: the timeout is cleared; a non-OK status throws (line 63),
\* an OK one awaits the body.
HealthFetchResolves ==
    /\ healthCall.pc = "fetch"
    /\ \E reply \in HealthReplies :
          healthCall' =
              IF IsOk(reply.status)
              THEN [healthCall EXCEPT !.pc = "body", !.timer = NoTimer,
                                      !.reply = reply]
              ELSE [healthCall EXCEPT
                        !.pc = "idle", !.timer = NoTimer, !.reply = reply,
                        !.outcome = Rejected(Error("Error", "Backend unhealthy"))]
    /\ UNCHANGED <<now, pureVars, scannerVars, fridgeVars, homeVars,
                   inventoryCall>>

HealthFetchRejects ==
    /\ healthCall.pc = "fetch"
    /\ healthCall' = [healthCall EXCEPT !.pc = "idle", !.timer = NoTimer,
                                        !.outcome = Rejected(NetworkError)]
    /\ UNCHANGED <<now, pureVars, scannerVars, fridgeVars, homeVars,
                   inventoryCall>>

\* The 5000 ms timeout fires: abort, AbortError, 'Backend not reachable'.
HealthTimeout ==
    /\ healthCall.pc = "fetch"
    /\ healthCall.timer # NoTimer
    /\ now >= healthCall.timer
    /\ healthCall' = [healthCall EXCEPT
                          !.pc = "idle", !.timer = NoTimer,
                          !.outcome = Rejected(Error("Error", "Backend not reachable"))]
    /\ UNCHANGED <<now, pureVars, scannerVars, fridgeVars, homeVars,
                   inventoryCall>>

\* return await response.json()
HealthBodyRead ==
    /\ healthCall.pc = "body"
    /\ healthCall' = [healthCall EXCEPT
                          !.pc = "idle",
                          !.outcome = IF healthCall.reply.body.kind = "invalid"
                                      THEN Rejected(JsonSyntaxError)
                                      ELSE Resolved(healthCall.reply.body)]
    /\ UNCHANGED <<now, pureVars, scannerVars, fridgeVars, homeVars,
                   inventoryCall>>

\* addToInventory up to its await of fetch: no controller, no timeout.
CallAddToInventory ==
    /\ inventoryCall.pc = "idle"
    /\ inventoryCall' = [IdleCall EXCEPT !.pc = "fetch"]
    /\ UNCHANGED <<now, pureVars, scannerVars, fridgeVars, homeVars,
                   healthCall>>

InventoryFetchResolves ==
    /\ inventoryCall.pc = "fetch"
    /\ \E reply \in InventoryReplies :
          inventoryCall' =
              IF IsOk(reply.status)
              THEN [inventoryCall EXCEPT !.pc = "body", !.reply = reply]
              ELSE [inventoryCall EXCEPT
                        !.pc = "idle", !.reply = reply,
                        !.outcome = Rejected(Error("Error",
                                        "Failed to add items to inventory"))]
    /\ UNCHANGED <<now, pureVars, scannerVars, fridgeVars, homeVars,
                   healthCall>>

InventoryFetchRejects ==
    /\ inventoryCall.pc = "fetch"
    /\ inventoryCall' = [inventoryCall EXCEPT !.pc = "idle",
                                              !.outcome = Rejected(NetworkError)]
    /\ UNCHANGED <<now, pureVars, scannerVars, fridgeVars, homeVars,
                   healthCall>>

InventoryBodyRead ==
    /\ inventoryCall.pc = "body"
    /\ inventoryCall' = [inventoryCall EXCEPT
                             !.pc = "idle",
                             !.outcome = IF inventoryCall.reply.body.kind = "invalid"
                                         THEN Rejected(JsonSyntaxError)
                                         ELSE Resolved(inventoryCall.reply.body)]
    /\ UNCHANGED <<now, pureVars, scannerVars, fridgeVars, homeVars,
                   healthCall>>

ApiNext ==
    \/ CallCheckBackendHealth
    \/ HealthFetchResolves
    \/ HealthFetchRejects
    \/ HealthTimeout
    \/ HealthBodyRead
    \/ CallAddToInventory
    \/ InventoryFetchResolves
    \/ InventoryFetchRejects
    \/ InventoryBodyRead
    \/ Tick

ApiSpec == Init /\ [][ApiNext]_vars

ApiLiveSpec ==
    /\ ApiSpec
    /\ WF_vars(Tick)
    /\ WF_vars(HealthTimeout)

\* ----------------------------------------------------------------- Home.jsx

Min(a, b) == IF a < b THEN a ELSE b
Max(a, b) == IF a > b THEN a ELSE b

\* The new amount without the upper limit.
NewAmountAtLeastZero(amountLeft, change) == Max(0, amountLeft + change)

\* Math.max(0, Math.min(1, item.amountLeft + change))
NewAmount(amountLeft, change) ==
    Max(Fraction(0), Min(Fraction(1), amountLeft + change))

\* The amounts an item can show up with: fractions, and the 100 that the
\* Scanner writes.
AmountInputs == {10, 25, 50, Fraction(1), Fraction(100)}
\* The changes a card can ask for.
ChangeInputs == {-100, -25, -10, 10, 25, 100}
\* The ids a card can pass; the last matches no item.
HomeIds == 1..(MaxHomeItems + 1)

HomeItem(id, amountLeft) == [id |-> id, amountLeft |-> amountLeft]

\* The lists of items with ids 1, 2, ... in this order.
HomeItemLists ==
    UNION {[1..k -> AmountInputs] : k \in 0..MaxHomeItems}
HomeInputs ==
    {[i \in DOMAIN amounts |-> HomeItem(i, amounts[i])] :
        amounts \in HomeItemLists}

\* items.find(i => i.id === id): the positions of the items with this id
Found(id) == {i \in DOMAIN homeItems : homeItems[i].id = id}

\* The reducer of updateAmountLeft({ id, amountLeft }).
updateAmountLeft(items, id, amountLeft) ==
    [i \in DOMAIN items |->
        IF items[i].id = id THEN [items[i] EXCEPT !.amountLeft = amountLeft]
        ELSE items[i]]

\* The reducer of removeItem(id).
removeItem(items, id) == SelectSeq(items, LAMBDA i : i.id # id)

Dispatch(type, id, amountLeft) ==
    [n |-> dispatched.n + 1, type |-> type, id |-> id,
     amountLeft |-> amountLeft]
Called(kind, id, change) ==
    [n |-> homeCall.n + 1, kind |-> kind, id |-> id, change |-> change]

\* The screens other than Home stay as they are.
HomeOnly == UNCHANGED <<now, pureVars, scannerVars, apiVars, fridgeVars>>

\* handleUpdateAmount writing a new amount of 0.
handleUpdateAmountWritesZero(id, change) ==
    /\ removeDialog = 0
    /\ homeCall.n < MaxHomeCalls
    /\ homeCall' = Called("updateAmount", id, change)
    /\ IF Found(id) = {}
       THEN UNCHANGED <<homeItems, removeDialog, dispatched>>
       ELSE LET item == homeItems[CHOOSE i \in Found(id) : TRUE]
                newAmount == NewAmount(item.amountLeft, change)
            IN /\ dispatched' = Dispatch("updateAmountLeft", id, newAmount)
               /\ homeItems' = updateAmountLeft(homeItems, id, newAmount)
               /\ UNCHANGED removeDialog
    /\ HomeOnly

\* handleUpdateAmount(id, change), called by an item's card.
handleUpdateAmount(id, change) ==
    /\ removeDialog = 0
    /\ homeCall.n < MaxHomeCalls
    /\ homeCall' = Called("updateAmount", id, change)
    /\ IF Found(id) = {}
       THEN UNCHANGED <<homeItems, removeDialog, dispatched>>
       ELSE LET first == CHOOSE i \in Found(id) : \A j \in Found(id) : i <= j
                item == homeItems[first]
                newAmount == NewAmount(item.amountLeft, change)
            IN IF newAmount = 0
               THEN \* handleRemoveItem(id)
                    /\ removeDialog' = id
                    /\ UNCHANGED <<homeItems, dispatched>>
               ELSE /\ dispatched' = Dispatch("updateAmountLeft", id, newAmount)
                    /\ homeItems' = updateAmountLeft(homeItems, id, newAmount)
                    /\ UNCHANGED removeDialog
    /\ HomeOnly

\* handleRemoveItem(item.id), by a press on the item's card: the dialog.
handleRemoveItem(i) ==
    /\ removeDialog = 0
    /\ homeCall.n < MaxHomeCalls
    /\ i \in DOMAIN homeItems
    /\ homeCall' = Called("pressCard", homeItems[i].id, 0)
    /\ removeDialog' = homeItems[i].id
    /\ UNCHANGED <<homeItems, dispatched>>
    /\ HomeOnly

\* 'Remove' in the dialog.
ConfirmRemove ==
    /\ removeDialog # 0
    /\ homeCall' = Called("remove", removeDialog, 0)
    /\ dispatched' = Dispatch("removeItem", removeDialog, 0)
    /\ homeItems' = removeItem(homeItems, removeDialog)
    /\ removeDialog' = 0
    /\ HomeOnly

\* 'Cancel' in the dialog.
CancelRemove ==
    /\ removeDialog # 0
    /\ homeCall' = Called("cancel", removeDialog, 0)
    /\ removeDialog' = 0
    /\ UNCHANGED <<homeItems, dispatched>>
    /\ HomeOnly

\* The Home screen opens on a list of items.
HomeSpecInit ==
    /\ now = 0
    /\ PureIdle
    /\ ScannerInit
    /\ ApiIdle
    /\ FridgeInit
    /\ homeItems \in HomeInputs
    /\ HomeIdle

HomeNext ==
    \/ \E id \in HomeIds, change \in ChangeInputs :
          handleUpdateAmount(id, change)
    \/ \E i \in 1..MaxHomeItems : handleRemoveItem(i)
    \/ ConfirmRemove
    \/ CancelRemove

HomeSpec == HomeSpecInit /\ [][HomeNext]_vars

\* ============================================================== properties

\* What the call was given and what it returned.
InputItems == detectionResponse.detected_items.arr
Returned == processed.kind = "return"
OutputItems == processed.items

\* The validation the pipeline states for a record: a non-empty name and a
\* confidence within [0,1].
PassesValidation(name, confidence) ==
    /\ name.t = "string" /\ name.s # ""
    /\ confidence.t = "number" /\ confidence.n >= 0 /\ confidence.n <= 100

\* C1: every record returned by processDetectionResults has a category that
\* is one of fruit, vegetable, packaged, other, and never any other value.
C1_CategoryInEnum ==
    Returned =>
        \A i \in DOMAIN OutputItems :
            OutputItems[i].category \in
                {JsString("fruit"), JsString("vegetable"),
                 JsString("packaged"), JsString("other")}

\* C2: for every category string that is not a key of the lookup table
\* (inherited property names, the empty string and a missing value included)
\* mapCategory returns exactly 'other'.
IsTableKey(v) == v.t = "string" /\ v.s \in DOMAIN categoryMap
C2_UnknownMapsToOther ==
    Returned =>
        \A i \in DOMAIN OutputItems :
            ~IsTableKey(InputItems[i].category)
                => OutputItems[i].category = JsString("other")

\* C3: no returned record has a null or empty name or a confidence outside
\* [0,1]: every output record passes the pipeline's validation.
C3_OutputPassesValidation ==
    Returned =>
        \A i \in DOMAIN OutputItems :
            PassesValidation(OutputItems[i].name, OutputItems[i].confidence)

\* C4: when exactly one of the N detected items would yield an invalid
\* record, exactly the N-1 valid ones are returned.
InvalidInputs ==
    {i \in DOMAIN InputItems :
        ~PassesValidation(InputItems[i].label, InputItems[i].confidence)}
C4_OneInvalidDropped ==
    (Returned /\ Cardinality(InvalidInputs) = 1) =>
        /\ Len(OutputItems) = Len(InputItems) - 1
        /\ \A i \in DOMAIN OutputItems :
              PassesValidation(OutputItems[i].name, OutputItems[i].confidence)

\* C5: the returned records are in the order of the detected items they were
\* built from: the record at position i carries source index i-1 in its id
\* and the label and confidence of the i-th detected item; none is repeated
\* or moved.
HasSourceIndex(rec, k) == \E t \in ClockValues : rec.id = DetectedId(t, k)
C5_DetectionOrderPreserved ==
    Returned =>
        /\ Len(OutputItems) = Len(InputItems)
        /\ \A i \in DOMAIN OutputItems :
              /\ HasSourceIndex(OutputItems[i], i - 1)
              /\ OutputItems[i].name = InputItems[i].label
              /\ OutputItems[i].confidence = InputItems[i].confidence
        /\ \A i, j \in DOMAIN OutputItems :
              \A k \in 0..(Len(InputItems) - 1) :
                  (HasSourceIndex(OutputItems[i], k)
                   /\ HasSourceIndex(OutputItems[j], k)) => i = j

\* a call that returned three records built from three different items
C5_Witness ==
    /\ Returned
    /\ Len(OutputItems) = 3
    /\ InputItems = <<MilkPacket, Apple, Carrot>>

\* C6: within one call no two returned records have the same id, whether the
\* clock reads of the records are equal or different.
C6_IdsUniqueInCall ==
    Returned =>
        \A i, j \in DOMAIN OutputItems :
            OutputItems[i].id = OutputItems[j].id => i = j

\* a call whose records were all built at the same clock value
C6_Witness ==
    /\ Returned
    /\ Len(OutputItems) >= 2
    /\ \A i \in DOMAIN OutputItems : OutputItems[i].detectedAt = 0
    /\ now = 0

\* C7: when the backend answers in degraded/demo mode, the marker survives
\* detectFoodItems, processDetectionResults and handleCapture: the scan state
\* the results view shows differs from the one the same items give when they
\* come from a real detection.
RealTwin(data) == [data EXCEPT !.degraded = JsUndefined]
ShowsAsReal(data) ==
    /\ error = JsNull
    /\ \E reads \in ClockReads(0, MaxNow, ReadCount(data)) :
          detectedItems = processDetectionResults(RealTwin(data), reads).items
C7_DegradedMarkerSurvives ==
    \A c \in CaptureIds :
        (/\ captures[c].pc = "idle"
         /\ captures[c].outcome.kind = "resolved"
         /\ captures[c].outcome.data.degraded = JsTrue
         /\ showResults)
            => ~ShowsAsReal(captures[c].outcome.data)

\* C8: every detectFoodItems call eventually settles (a timeout aborts it when
\* the backend does not answer in time); it never waits forever, the reading
\* of the response body included.
C8_DetectEventuallySettles ==
    \A c \in CaptureIds :
        (captures[c].pc = "fetch") ~> (captures[c].outcome.kind # "pending")

\* C9: every request is bound by a timeout: a call of addToInventory, and of
\* checkBackendHealth, stops waiting for the backend's response even when the
\* backend never responds.
C9_RequestsBoundByTimeout ==
    /\ (inventoryCall.pc = "fetch") ~> (inventoryCall.pc # "fetch")
    /\ (healthCall.pc = "fetch") ~> (healthCall.pc # "fetch")

\* C10: on a non-OK status detectFoodItems never resolves with data: it
\* rejects, with the body's 'detail' as message when the body has one, and
\* with 'Detection failed: <status>' when it has none or is not valid JSON.
C10_NotOkRejectsWithDetail ==
    \A c \in CaptureIds :
        LET reply == captures[c].reply
            outcome == captures[c].outcome
            hasDetail == reply.body.kind = "object"
                         /\ reply.body.detail.t # "undefined"
        IN (captures[c].pc = "idle" /\ reply # NoReply /\ ~IsOk(reply.status)) =>
              /\ outcome.kind = "rejected"
              /\ (hasDetail /\ Truthy(reply.body.detail))
                    => outcome.error.message = JsToString(reply.body.detail)
              /\ ~hasDetail
                    => outcome.error.message =
                          "Detection failed: " \o ToString(reply.status)

\* C11: a successful detection response whose item list is empty is not an
\* error: the handleCapture that receives it ends with the results view
\* shown, an empty detected list, error null and no 'Scan Failed' alert.
EmptyDetection(body) ==
    /\ body.kind = "object"
    /\ body.detected_items.present
    /\ body.detected_items.arr = <<>>
C11_EmptyResultIsNotAnError ==
    [][\A c \in CaptureIds :
          (/\ captures[c].pc = "okBody"
           /\ EmptyDetection(captures[c].reply.body)
           /\ captures'[c].pc = "idle")
              => /\ showResults'
                 /\ detectedItems' = <<>>
                 /\ error' = JsNull
                 /\ alert'.title # "Scan Failed"]_vars

\* a scan that has just ended on an empty detection
C11_Witness ==
    \E c \in CaptureIds :
        /\ captures[c].pc = "idle"
        /\ captures[c].outcome.kind = "resolved"
        /\ EmptyDetection(captures[c].outcome.data)
        /\ showResults
        /\ detectedItems = <<>>
        /\ ~isScanning

\* C12: every item handleAddToFridge submits has a non-negative expiry
\* horizon: its expiry date is never earlier than the day it is added on.
\* This holds of every addFridgeItem argument, dispatched or in the fridge.
C12_ExpiryNotBeforeAddDate ==
    /\ \A a \in AddIds :
          adds[a].pc = "dispatch"
              => adds[a].payload.expiryDate >= DayOf(adds[a].today)
    /\ \A i \in DOMAIN fridge :
          fridge[i].item.expiryDate >= DayOf(fridge[i].today)

\* an item is in the fridge, seven days from its expiry
C12_Witness ==
    \E i \in DOMAIN fridge :
        fridge[i].item.expiryDate = DayOf(fridge[i].today) + 7

\* C13: the expiry of an added item depends on the item: two items of
\* different categories (and no name match) do not get the same horizon.
ExpiryHorizon(entry) == entry.item.expiryDate - DayOf(entry.today)
C13_ExpiryDependsOnCategory ==
    \A i, j \in DOMAIN fridge :
        fridge[i].item.category # fridge[j].item.category
            => ExpiryHorizon(fridge[i]) # ExpiryHorizon(fridge[j])

\* C14: no detected item with a confidence below the minimum confidence is
\* in the detected-items list.
C14_NoLowConfidenceDetected ==
    \A i \in DOMAIN detectedItems :
        /\ detectedItems[i].confidence.t = "number"
        /\ detectedItems[i].confidence.n >= MIN_CONFIDENCE

\* the results of a scan whose photo had a region below the minimum
C14_Witness ==
    \E c \in CaptureIds :
        /\ captures[c].pc = "idle"
        /\ captures[c].outcome.kind = "resolved"
        /\ \E r \in DOMAIN captures[c].regions :
              captures[c].regions[r].confidence.n < MIN_CONFIDENCE
        /\ showResults
        /\ detectedItems # <<>>
        /\ Len(detectedItems) < Len(captures[c].regions)

\* C16: each record of processDetectionResults carries its item's data
\* unchanged: name is the label, confidence the confidence, and ocrText the
\* extra text when that is a non-empty string, null otherwise.
IsText(v) == v.t = "string" /\ v.s # ""
C17_AmountLeftInRange ==
    \A i \in DOMAIN fridge : fridge[i].item.amountLeft \in HomeAmountRange

\* C18: handleAddToFridge removes an item from the detected list if and only
\* if its addFridgeItem dispatch succeeded: then exactly the items with its
\* id leave the list and the others stay in order; when the upload or the
\* dispatch fails the list is unchanged.
AddGoesOn(a) ==
    <<adds[a].pc, adds'[a].pc>> \in
        {<<"getUser", "resize">>, <<"resize", "upload">>,
         <<"upload", "dispatch">>}
AddEnds(a) ==
    /\ adds[a].pc # "idle"
    /\ adds'[a] # adds[a]
    /\ ~AddGoesOn(a)
C18_RemovedIffDispatched ==
    [][\A a \in AddIds :
          AddEnds(a) =>
              IF Len(fridge') > Len(fridge)
              THEN detectedItems' =
                       SelectSeq(detectedItems,
                                 LAMBDA x : x.id # adds[a].item.id)
              ELSE detectedItems' = detectedItems]_vars

\* one of two detected items has been added: it left the list, the other
\* is still there
C18_Witness ==
    /\ Len(addedIds) = 1
    /\ Len(detectedItems) = 1
    /\ detectedItems[1].id # addedIds[1]
    /\ alert.title = "Added!"

\* C19: each detected item is added to the fridge at most once, however
\* taps on add buttons and on 'Add All to Fridge' interleave with adds in
\* flight.
C19_AddedAtMostOnce ==
    \A i, j \in DOMAIN addedIds : i # j => addedIds[i] # addedIds[j]

\* C20: a handleAddToFridge called when the user is not authenticated
\* uploads nothing, dispatches nothing and leaves the detected list as it
\* is; and an uploadItemImage that finds no authenticated user throws before
\* anything is written to the storage.
C20_NotAuthenticatedAddsNothing ==
    [][/\ (~isAuthenticated /\ alert = NoAlert /\ alert' = NotSignedIn)
            => /\ storage' = storage
               /\ fridge' = fridge
               /\ detectedItems' = detectedItems
               /\ adds' = adds
       /\ ~isAuthenticated =>
              \A a \in AddIds : adds[a].pc = "idle" => adds'[a].pc = "idle"
       /\ \A a \in AddIds :
              (adds[a].pc = "getUser" /\ ~authUser /\ adds'[a] # adds[a])
                  => /\ AddEnds(a)
                     /\ alert'.title = "Error"
                     /\ storage' = storage
                     /\ fridge' = fridge
                     /\ detectedItems' = detectedItems]_vars

\* the add button was pressed without a session: only the alert shows
C20_Witness ==
    /\ ~isAuthenticated
    /\ alert = NotSignedIn
    /\ showResults
    /\ detectedItems # <<>>
    /\ storage = {}
    /\ fridge = <<>>

\* an upload found no user
C20_UploadWithoutUser ==
    /\ ~authUser
    /\ alert.message = "User not authenticated"
    /\ storage = {}

\* C21: after a handleAddToFridge that failed to add its item (the dispatch
\* was rejected) no image uploaded by that call remains in the storage: every
\* object belongs to an item of the fridge or to an add still dispatching.
C21_NoImageWithoutItem ==
    \A o \in storage :
        \/ \E i \in DOMAIN fridge :
              fridge[i].item.imagePath = JsString(o.path)
        \/ \E a \in AddIds :
              adds[a].pc = "dispatch" /\ adds[a].path = o.path

\* C22: at most one scan started by the Scanner screen is in flight at any
\* time: no handleCapture starts while isScanning is true.
ScansInFlight == {c \in CaptureIds : captures[c].pc # "idle"}
C22_OneScanInFlight ==
    /\ Cardinality(ScansInFlight) <= 1
    /\ ScansInFlight # {} => isScanning /\ rendered.isScanning

\* the second scan of the screen is running, alone
C22_Witness ==
    /\ scanCount = 2
    /\ Cardinality(ScansInFlight) = 1
    /\ isScanning

\* C23: scans do not leak state into one another: whenever the results are
\* shown, the detected items are those of the detection of the image held in
\* capturedBase64; this holds of the state and of what is rendered, which is
\* what handleAddToFridge uses.
FromDetection(items, data) ==
    /\ data.kind = "object"
    /\ data.detected_items.present
    /\ Len(items) = Len(data.detected_items.arr)
    /\ \A i \in DOMAIN items :
          /\ items[i].name = data.detected_items.arr[i].label
          /\ items[i].confidence = data.detected_items.arr[i].confidence
ResultsOfImage(items, base64) ==
    \E c \in CaptureIds :
        /\ captures[c].pc = "idle"
        /\ captures[c].outcome.kind = "resolved"
        /\ base64 = Base64Of(captures[c].photo)
        /\ FromDetection(items, captures[c].outcome.data)
C23_ResultsBelongToImage ==
    /\ showResults => ResultsOfImage(detectedItems, capturedBase64)
    /\ rendered.showResults =>
           ResultsOfImage(rendered.detectedItems, rendered.capturedBase64)

\* the results of the second scan are on the screen
C23_Witness ==
    /\ scanCount = 2
    /\ rendered.showResults
    /\ rendered.detectedItems # <<>>
    /\ rendered.capturedBase64 = Base64Of(2)

\* C25: two calls of uploadItemImage never target the same storage path: an
\* upload under way has a path that no other upload under way and no stored
\* object has.
Uploading == {a \in AddIds : adds[a].pc \in {"resize", "upload"}}
C25_UploadPathsDistinct ==
    /\ \A a, b \in Uploading : a # b => adds[a].path # adds[b].path
    /\ \A a \in Uploading : \A o \in storage : o.path # adds[a].path

\* C24: every handleCapture that set isScanning to true eventually sets it
\* back to false, and isScanning is not true once the scan has ended.
C24_ScanningEventuallyEnds ==
    /\ isScanning ~> ~isScanning
    /\ [](ScansInFlight = {} => ~isScanning)

\* isScanning is not true once the scan has ended, whichever way it ended.
ScanEndedNotScanning == ScansInFlight = {} => ~isScanning

\* When every step of the scan settles, isScanning goes back to false.
SettledScanEnds == isScanning ~> ~isScanning

\* C26: Home.handleUpdateAmount never dispatches updateAmountLeft with a
\* value outside (0,1]: the new amount is the old amount plus the change,
\* clamped to [0,1]; a clamped value of 0 is never written; an id that
\* matches no listed item dispatches nothing.
UpdateCalled == homeCall'.n > homeCall.n /\ homeCall'.kind = "updateAmount"
Clamped(x) == IF x < 0 THEN 0 ELSE IF x > 100 THEN 100 ELSE x
C26_UpdateWithinRange ==
    /\ [](dispatched.type = "updateAmountLeft"
             => dispatched.amountLeft > 0 /\ dispatched.amountLeft <= 100)
    /\ [][UpdateCalled =>
             LET id == homeCall'.id
                 listed == {i \in DOMAIN homeItems : homeItems[i].id = id}
             IN IF listed = {}
                THEN dispatched' = dispatched /\ homeItems' = homeItems
                ELSE \A i \in listed :
                        LET new == Clamped(homeItems[i].amountLeft
                                               + homeCall'.change)
                        IN IF new = 0
                           THEN dispatched' = dispatched
                           ELSE /\ dispatched'.n = dispatched.n + 1
                                /\ dispatched'.type = "updateAmountLeft"
                                /\ dispatched'.id = id
                                /\ dispatched'.amountLeft = new]_vars

\* an update was clamped at the upper end and written
C26_Witness ==
    /\ dispatched.type = "updateAmountLeft"
    /\ dispatched.amountLeft = 100
    /\ homeCall.kind = "updateAmount"
    /\ homeCall.change = 25
    /\ \E i \in DOMAIN homeItems :
          homeItems[i].id = dispatched.id /\ homeItems[i].amountLeft = 100

\* C27: on the Home screen an item is removed only after the user chose
\* 'Remove' in the dialog; an amount change that would bring amountLeft to 0
\* opens the dialog instead of updating; 'Cancel' leaves the inventory, that
\* item's amountLeft included, unchanged.
HomeItemIds(items) == {items[i].id : i \in DOMAIN items}
C27_RemovedOnlyWhenConfirmed ==
    [][/\ HomeItemIds(homeItems') # HomeItemIds(homeItems)
            => /\ removeDialog # 0
               /\ homeCall'.kind = "remove"
               /\ HomeItemIds(homeItems) \ HomeItemIds(homeItems')
                      = {removeDialog}
       /\ (removeDialog = 0 /\ removeDialog' # 0)
            => homeItems' = homeItems /\ dispatched' = dispatched
       /\ (UpdateCalled
            /\ \E i \in DOMAIN homeItems :
                  /\ homeItems[i].id = homeCall'.id
                  /\ homeItems[i].amountLeft + homeCall'.change <= 0)
            => removeDialog' = homeCall'.id /\ homeItems' = homeItems
       /\ (homeCall'.n > homeCall.n /\ homeCall'.kind = "cancel")
            => /\ homeItems' = homeItems
               /\ dispatched' = dispatched
               /\ removeDialog' = 0]_vars

\* an amount change to 0 has opened the dialog: nothing was written, the
\* item is still there with the amount it had
C27_Witness ==
    /\ homeCall.kind = "updateAmount"
    /\ removeDialog = homeCall.id
    /\ dispatched = NoDispatch
    /\ \E i \in DOMAIN homeItems :
          /\ homeItems[i].id = homeCall.id
          /\ homeItems[i].amountLeft = 25
          /\ homeItems[i].amountLeft + homeCall.change <= 0

\* the user chose 'Cancel': the item is still there
C27_Cancelled ==
    /\ homeCall.kind = "cancel"
    /\ removeDialog = 0
    /\ dispatched = NoDispatch
    /\ \E i \in DOMAIN homeItems : homeItems[i].id = homeCall.id

====
